---- MODULE Spec2Model ----
(***************************************************************************)
(* Model of src/algos/fl_assigned.py: the FedAss round protocol between    *)
(* one FedAssServer and num_users FedAssClient processes, and the          *)
(* collaborator-weight strategies of FedAssClient.get_collaborator_weights.*)
(*                                                                         *)
(* Spec      the round protocol (server and clients interleaved).          *)
(* FairSpec  Spec with weak fairness of every process.                     *)
(* SpecW     get_collaborator_weights called on drawn inputs.              *)
(***************************************************************************)
EXTENDS Integers, Sequences, FiniteSets, TLC

VARIABLES
  config,     \* the run configuration (self.config), the same at every node
  spc,        \* server: position in run_protocol / single_round
  sround,     \* server: self.round
  sidx,       \* server: next client of the running "for client in users" loop
  models,     \* server: result of all_gather(REPR_ADVERT) of this round
  stats,      \* server: the list "stats" of run_protocol
  cpc,        \* client: position in run_protocol
  cround,     \* client: loop variable "round"
  crep,       \* client: the model weights (get_model_weights)
  reprs,      \* client: the list received with REPRS_SHARE
  cw,         \* client: collab_weights_dict
  cstats,     \* client: the dict "stats" of this iteration
  net,        \* Messenger: net[tag][c], FIFO channel between server and c
  hist,       \* history: per client, what it sent, received and called
  shist,      \* history: what the server sent and which rounds it ran
  wcall,      \* SpecW: arguments of the last get_collaborator_weights call
  wret        \* SpecW: its outcome

pvars == <<spc, sround, sidx, models, stats, cpc, cround, crep, reprs, cw,
           cstats, net, hist, shist>>
wvars == <<wcall, wret>>
vars == <<config, spc, sround, sidx, models, stats, cpc, cround, crep, reprs,
          cw, cstats, net, hist, shist, wcall, wret>>

----------------------------------------------------------------------------
(* Bounds *)

MaxUsers == 3       \* clients in a protocol run
MaxRounds == 2      \* config["rounds"] in a protocol run
MaxStart == 1       \* config["start_round"] in a protocol run
MaxUsersW == 9      \* num_users of a direct_expo call in SpecW
MaxUsersA == 4      \* num_users of a fixed / random_among_assigned call
MaxRoundW == 6      \* round argument in SpecW
MaxCollabW == 5     \* num_collaborator argument in SpecW

----------------------------------------------------------------------------
(* Exact rationals <<numerator, denominator>>, denominator > 0, reduced.    *)

\* The arithmetic helpers are functions: a function's argument is evaluated
\* once, where it is applied.

Max(S) == CHOOSE x \in S : \A y \in S : y <= x

Gcd[a \in Nat, b \in Nat] == IF b = 0 THEN a ELSE Gcd[b, a % b]

Rat[n \in Nat, d \in Nat] ==
  IF Gcd[n, d] = 0 THEN <<0, 1>> ELSE <<n \div Gcd[n, d], d \div Gcd[n, d]>>

RatAdd[p \in Nat \X Nat, q \in Nat \X Nat] ==
  Rat[p[1] * q[2] + q[1] * p[2], p[2] * q[2]]

Zero == <<0, 1>>
One == <<1, 1>>

\* sum(d.values()) of a dict of rationals keyed by node ids >= 1
RatSum(f) ==
  LET upto[i \in Nat] ==
        IF i = 0 THEN Zero
        ELSE RatAdd[upto[i - 1], IF i \in DOMAIN f THEN f[i] ELSE Zero]
  IN upto[Max(DOMAIN f \cup {0})]

\* sum(d.values()) of a dict of integers keyed by node ids >= 1
IntSum(f) ==
  LET upto[i \in Nat] ==
        IF i = 0 THEN 0
        ELSE upto[i - 1] + (IF i \in DOMAIN f THEN f[i] ELSE 0)
  IN upto[Max(DOMAIN f \cup {0})]

Pow2(k) == 2 ^ k

\* math.floor(math.log2(x)) for x >= 1
FloorLog2(x) == CHOOSE k \in 0 .. x : Pow2(k) <= x /\ x < Pow2(k + 1)

----------------------------------------------------------------------------
(* get_collaborator_weights                                                *)

Strategies == {"fixed", "direct_expo", "random_among_assigned"}

Ok(w) == [err |-> "none", w |-> w]
Raise(e) == [err |-> e, w |-> [k \in {} |-> Zero]]

\* lines 42-43: total = sum(values); {id: w / total}
NormalizeRaw(raw) ==
  LET total == IntSum(raw)
  IN [id \in DOMAIN raw |-> <<raw[id], 1>>]

Normalize(raw) ==
  LET total == IntSum(raw)
  IN [id \in DOMAIN raw |-> Rat[raw[id], total]]

\* lines 20-23: one raw weight 1 per assigned collaborator
FixedWithSelf(cfg, node_id) ==
  {[id \in cfg.assigned[node_id] \cup {node_id} |-> 1]}

Fixed(cfg, node_id) ==
  {[id \in cfg.assigned[node_id] |-> 1]}

\* line 27, off by one
CollabIdDoubleStep(cfg, node_id, power) ==
  ((node_id + 2 * Pow2(power)) % cfg.num_users) + 1

CollabIdNoShift(cfg, node_id, power) ==
  (node_id + Pow2(power)) % cfg.num_users

\* lines 26-27: steps = 2^power; collab_id = ((node_id + steps) % num_users) + 1
CollabId(cfg, node_id, power) ==
  ((node_id + Pow2(power)) % cfg.num_users) + 1

\* lines 24-28; math.log2(0) raises ValueError, round % 0 ZeroDivisionError
DirectExpo(cfg, node_id, round) ==
  IF cfg.num_users - 1 <= 0 THEN {Raise("ValueError")}
  ELSE LET P == FloorLog2(cfg.num_users - 1)
       IN IF P = 0 THEN {Raise("ZeroDivisionError")}
          ELSE LET collab_id == CollabId(cfg, node_id, round % P)
               IN {Ok(Normalize([id \in {node_id, collab_id} |-> 1]))}

\* np.random.choice with replacement: the draws may repeat
ChoiceWithReplacement(pop, size) ==
  IF pop = {} /\ size # 0 THEN {}
  ELSE {S \in SUBSET pop : IF size = 0 THEN S = {}
                           ELSE Cardinality(S) >= 1 /\ Cardinality(S) <= size}

\* np.random.choice(list, size, replace=False): the sets of size distinct
\* members; no outcome (ValueError) when size exceeds the population
Choice(pop, size) ==
  {S \in SUBSET pop : Cardinality(S) = size}

\* lines 29-38 falling back to the node alone when the draw cannot be made
RandomAmongAssignedDefault(cfg, node_id, num_collaborator) ==
  LET draws == Choice(cfg.assigned[node_id], num_collaborator)
  IN IF draws = {} THEN {Ok(Normalize([k \in {node_id} |-> 1]))}
     ELSE {Ok(Normalize([k \in S \cup {node_id} |-> 1])) : S \in draws}

\* lines 29-38
RandomAmongAssigned(cfg, node_id, num_collaborator) ==
  LET draws == Choice(cfg.assigned[node_id], num_collaborator)
  IN IF draws = {} THEN {Raise("ValueError")}
     ELSE {Ok(Normalize([k \in S \cup {node_id} |-> 1])) : S \in draws}

\* lines 16-44: the set of possible outcomes of one call
get_collaborator_weights(cfg, node_id, num_collaborator, round) ==
  IF cfg.strategy = "fixed"
    THEN {Ok(Normalize(raw)) : raw \in Fixed(cfg, node_id)}
  ELSE IF cfg.strategy = "direct_expo"
    THEN DirectExpo(cfg, node_id, round)
  ELSE IF cfg.strategy = "random_among_assigned"
    THEN RandomAmongAssigned(cfg, node_id, num_collaborator)
  ELSE {Raise("ValueError")}

----------------------------------------------------------------------------
(* Configurations                                                          *)

Users(cfg) == 1 .. cfg.num_users

Next1(c, n) == (c % n) + 1

\* families of assigned_collaborators maps of a protocol run
AssignedShapes(n) ==
  { [c \in 1 .. n |-> {c}],
    [c \in 1 .. n |-> 1 .. n],
    [c \in 1 .. n |-> {c, Next1(c, n)}],
    [c \in 1 .. n |-> IF c = 1 THEN {1} ELSE {Next1(c, n)}],
    [c \in 1 .. n |-> {}] }

\* assigned_collaborators where node 1 samples from U and every other node
\* has one assigned peer
ChoiceAtOne(n, U) == [c \in 1 .. n |-> IF c = 1 THEN U ELSE {Next1(c, n)}]

Config(s, n, a, r, s0, t0, tb, ta) ==
  [strategy |-> s, num_users |-> n, assigned |-> a, rounds |-> r,
   start_round |-> s0, T_0 |-> t0, target_users_before_T_0 |-> tb,
   target_users_after_T_0 |-> ta]

\* <<target_users_before_T_0, target_users_after_T_0>> of a protocol run
TargetPairs == {<<0, 1>>, <<1, 0>>, <<1, 2>>}

ProtoConfigs ==
  UNION { UNION { UNION {
    { Config("fixed", n, a, r, s0, 1, 1, 1) : a \in AssignedShapes(n) }
    \cup { Config(s, n, [c \in 1 .. n |-> {}], r, s0, 1, 1, 1) :
             s \in {"direct_expo", "fedavg"} }
    \cup { Config("random_among_assigned", n, ChoiceAtOne(n, (2 .. 3) \cap (1 .. n)),
                  r, s0, t0, tt[1], tt[2]) :
             t0 \in {0, 1, MaxRounds}, tt \in TargetPairs }
    \cup { Config("random_among_assigned", n, ChoiceAtOne(n, {1, 2}),
                  r, s0, 1, 1, 1) }
    : s0 \in 0 .. MaxStart } : r \in 1 .. MaxRounds } : n \in 2 .. MaxUsers }

WeightConfigs ==
  UNION { { Config(s, n, [c \in 1 .. n |-> U], 1, 0, 1, 1, 1) :
              s \in {"fixed", "random_among_assigned"}, U \in SUBSET (1 .. n) }
          : n \in 1 .. MaxUsersA }
  \cup { Config(s, n, [c \in 1 .. n |-> {}], 1, 0, 1, 1, 1) :
           s \in {"direct_expo", "fedavg"}, n \in 1 .. MaxUsersW }

\* lines 73-75: the target count of a round
NumCollabAfterOnly(cfg, round) ==
  IF round <= cfg.T_0 THEN cfg.target_users_before_T_0
  ELSE cfg.target_users_after_T_0

NumCollaborator(cfg, round) ==
  IF round < cfg.T_0 THEN cfg.target_users_before_T_0
  ELSE cfg.target_users_after_T_0

RoundRange(cfg) == cfg.start_round .. (cfg.rounds - 1)

----------------------------------------------------------------------------
(* Messenger: one FIFO channel per tag and client; send never blocks,      *)
(* receive blocks until a message is there, all_gather takes one message   *)
(* of every client, in node order.                                         *)

Tags == {"ROUND_START", "REPR_ADVERT", "REPRS_SHARE", "ROUND_STATS"}

EmptyNet(cfg) == [t \in Tags |-> [c \in Users(cfg) |-> <<>>]]

Send(n, tag, c, msg) == [n EXCEPT ![tag][c] = Append(@, msg)]

CanReceive(n, tag, c) == n[tag][c] # <<>>

Received(n, tag, c) == Head(n[tag][c])

AfterReceive(n, tag, c) == [n EXCEPT ![tag][c] = Tail(@)]

CanGather(n, tag, cfg) == \A c \in Users(cfg) : n[tag][c] # <<>>

Gathered(n, tag, cfg) == [c \in Users(cfg) |-> Head(n[tag][c])]

AfterGather(n, tag, cfg) ==
  [n EXCEPT ![tag] = [c \in Users(cfg) |-> Tail(n[tag][c])]]

----------------------------------------------------------------------------
(* Collaborators of the client outside this file                           *)

EmptyDict == [k \in {} |-> 0]

InitRep(c) == [id |-> c, ver |-> 0, mix |-> {c}]

\* Aggregator: fails unless the weights sum to 1 and every weighted id has
\* a representation; the blend carries what its inputs carried
AggregateFails(models_wts, weights) ==
  \/ RatSum(weights) # One
  \/ ~(DOMAIN weights \subseteq DOMAIN models_wts)

Aggregate(models_wts, weights) ==
  [mix |-> UNION {models_wts[k].rep.mix : k \in DOMAIN weights}]

SetModelWeights(rep, avg_wts) ==
  [rep EXCEPT !.ver = @ + 1, !.mix = avg_wts.mix]

LocalTest(rep) == rep.ver

LocalTrained(rep) == [rep EXCEPT !.ver = @ + 1]

----------------------------------------------------------------------------
(* Initial state                                                           *)

InitHist(c) ==
  [starts |-> 0, startRnd |-> -1, adverts |-> 0, advRep |-> InitRep(c),
   snapRnd |-> -1, snap |-> <<>>, nc |-> -1, ncs |-> <<>>, calls |-> <<>>,
   rounds |-> <<>>, err |-> "none"]

NoCall == [node_id |-> 0, num_collaborator |-> 0, round |-> 0]

PInit ==
  /\ spc = IF config.start_round < config.rounds THEN "send_start" ELSE "finalize"
  /\ sround = config.start_round
  /\ sidx = 1
  /\ models = <<>>
  /\ stats = <<>>
  /\ cpc = [c \in Users(config) |->
              IF config.start_round < config.rounds THEN "wait_start" ELSE "done"]
  /\ cround = [c \in Users(config) |-> config.start_round]
  /\ crep = [c \in Users(config) |-> InitRep(c)]
  /\ reprs = [c \in Users(config) |-> <<>>]
  /\ cw = [c \in Users(config) |-> [k \in {} |-> Zero]]
  /\ cstats = [c \in Users(config) |-> EmptyDict]
  /\ net = EmptyNet(config)
  /\ hist = [c \in Users(config) |-> InitHist(c)]
  /\ shist = [starts |-> [c \in Users(config) |-> 0], rounds |-> <<>>]

Init ==
  /\ config \in ProtoConfigs
  /\ PInit
  /\ wcall = NoCall
  /\ wret = Raise("not_called")

InitW ==
  /\ config \in WeightConfigs
  /\ PInit
  /\ wcall = NoCall
  /\ wret = Raise("not_called")

----------------------------------------------------------------------------
(* FedAssServer                                                            *)

\* lines 144-145: ROUND_START to the next client of self.users
ServerSendStart ==
  /\ spc = "send_start"
  /\ net' = Send(net, "ROUND_START", sidx, [rnd |-> sround])
  /\ shist' = [shist EXCEPT !.starts[sidx] = @ + 1]
  /\ IF sidx < config.num_users
       THEN sidx' = sidx + 1 /\ spc' = spc
       ELSE sidx' = 1 /\ spc' = "gather_reprs"
  /\ UNCHANGED <<config, sround, models, stats, cpc, cround, crep, reprs, cw,
                 cstats, hist, wcall, wret>>

\* line 151 taking whatever has arrived instead of waiting for every client
ServerGatherReprsPartial ==
  /\ spc = "gather_reprs"
  /\ \E c \in Users(config) : CanReceive(net, "REPR_ADVERT", c)
  /\ LET got == {c \in Users(config) : CanReceive(net, "REPR_ADVERT", c)}
         ord == CHOOSE q \in [1 .. Cardinality(got) -> got] :
                  \A i, j \in DOMAIN q : i < j => q[i] < q[j]
     IN /\ models' = [i \in DOMAIN ord |-> Head(net["REPR_ADVERT"][ord[i]])]
        /\ net' = [net EXCEPT !["REPR_ADVERT"] =
                     [c \in Users(config) |->
                        IF c \in got THEN Tail(net["REPR_ADVERT"][c]) ELSE <<>>]]
  /\ spc' = "send_reprs"
  /\ sidx' = 1
  /\ UNCHANGED <<config, sround, stats, cpc, cround, crep, reprs, cw, cstats,
                 hist, shist, wcall, wret>>

\* line 151: models = all_gather(REPR_ADVERT)
ServerGatherReprs ==
  /\ spc = "gather_reprs"
  /\ CanGather(net, "REPR_ADVERT", config)
  /\ models' = Gathered(net, "REPR_ADVERT", config)
  /\ net' = AfterGather(net, "REPR_ADVERT", config)
  /\ spc' = "send_reprs"
  /\ sidx' = 1
  /\ UNCHANGED <<config, sround, stats, cpc, cround, crep, reprs, cw, cstats,
                 hist, shist, wcall, wret>>

\* line 155 sending every client the list rotated to start at its own entry
ServerSendReprsRotated ==
  /\ spc = "send_reprs"
  /\ net' = Send(net, "REPRS_SHARE", sidx,
                 [rnd |-> sround,
                  data |-> [i \in DOMAIN models |->
                              models[((i + sidx - 2) % Len(models)) + 1]]])
  /\ IF sidx < config.num_users
       THEN sidx' = sidx + 1 /\ spc' = spc
       ELSE sidx' = 1 /\ spc' = "gather_stats"
  /\ UNCHANGED <<config, sround, models, stats, cpc, cround, crep, reprs, cw,
                 cstats, hist, shist, wcall, wret>>

\* line 155: send_representations(models), one REPRS_SHARE per client
ServerSendReprs ==
  /\ spc = "send_reprs"
  /\ net' = Send(net, "REPRS_SHARE", sidx, [rnd |-> sround, data |-> models])
  /\ IF sidx < config.num_users
       THEN sidx' = sidx + 1 /\ spc' = spc
       ELSE sidx' = 1 /\ spc' = "gather_stats"
  /\ UNCHANGED <<config, sround, models, stats, cpc, cround, crep, reprs, cw,
                 cstats, hist, shist, wcall, wret>>

\* lines 158-185 going on as soon as one client has reported
ServerGatherStatsPartial ==
  /\ spc = "gather_stats"
  /\ \E c \in Users(config) : CanReceive(net, "ROUND_STATS", c)
  /\ LET got == {c \in Users(config) : CanReceive(net, "ROUND_STATS", c)}
         ord == CHOOSE q \in [1 .. Cardinality(got) -> got] :
                  \A i, j \in DOMAIN q : i < j => q[i] < q[j]
     IN /\ stats' = Append(stats, [i \in DOMAIN ord |->
                                     Head(net["ROUND_STATS"][ord[i]])])
        /\ net' = [net EXCEPT !["ROUND_STATS"] =
                     [c \in Users(config) |->
                        IF c \in got THEN Tail(net["ROUND_STATS"][c]) ELSE <<>>]]
  /\ shist' = [shist EXCEPT !.rounds = Append(@, sround)]
  /\ IF sround + 1 < config.rounds
       THEN sround' = sround + 1 /\ spc' = "send_start"
       ELSE sround' = sround /\ spc' = "finalize"
  /\ UNCHANGED <<config, sidx, models, cpc, cround, crep, reprs, cw, cstats,
                 hist, wcall, wret>>

\* lines 158-185 keeping the last round_stats only
ServerGatherStatsKeepLast ==
  /\ spc = "gather_stats"
  /\ CanGather(net, "ROUND_STATS", config)
  /\ stats' = <<Gathered(net, "ROUND_STATS", config)>>
  /\ net' = AfterGather(net, "ROUND_STATS", config)
  /\ shist' = [shist EXCEPT !.rounds = Append(@, sround)]
  /\ IF sround + 1 < config.rounds
       THEN sround' = sround + 1 /\ spc' = "send_start"
       ELSE sround' = sround /\ spc' = "finalize"
  /\ UNCHANGED <<config, sidx, models, cpc, cround, crep, reprs, cw, cstats,
                 hist, wcall, wret>>

\* lines 158-171, 180-185: round_stats = all_gather(ROUND_STATS); append it
\* to stats; next iteration of the round loop
ServerGatherStats ==
  /\ spc = "gather_stats"
  /\ CanGather(net, "ROUND_STATS", config)
  /\ stats' = Append(stats, Gathered(net, "ROUND_STATS", config))
  /\ net' = AfterGather(net, "ROUND_STATS", config)
  /\ shist' = [shist EXCEPT !.rounds = Append(@, sround)]
  /\ IF sround + 1 < config.rounds
       THEN sround' = sround + 1 /\ spc' = "send_start"
       ELSE sround' = sround /\ spc' = "finalize"
  /\ UNCHANGED <<config, sidx, models, cpc, cround, crep, reprs, cw, cstats,
                 hist, wcall, wret>>

\* lines 187-190: reshape and hand over the history, then return
ServerFinalize ==
  /\ spc = "finalize"
  /\ spc' = "done"
  /\ UNCHANGED <<config, sround, sidx, models, stats, cpc, cround, crep, reprs,
                 cw, cstats, net, hist, shist, wcall, wret>>

ServerStep ==
  \/ ServerSendStart
  \/ ServerGatherReprs
  \/ ServerSendReprs
  \/ ServerGatherStats
  \/ ServerFinalize

----------------------------------------------------------------------------
(* FedAssClient.run_protocol                                               *)

Fail(c, e) ==
  /\ cpc' = [cpc EXCEPT ![c] = "failed"]
  /\ hist' = [hist EXCEPT ![c].err = e]

Called(c, names) == [hist EXCEPT ![c].calls = @ \o names]

\* line 58 not waiting for the server's signal
ClientWaitStartNoBlock(c) ==
  /\ cpc[c] = "wait_start"
  /\ net' = IF CanReceive(net, "ROUND_START", c)
              THEN AfterReceive(net, "ROUND_START", c) ELSE net
  /\ cstats' = [cstats EXCEPT ![c] = EmptyDict]
  /\ hist' = [hist EXCEPT ![c].calls = <<>>]
  /\ cpc' = [cpc EXCEPT ![c] = "advertise"]
  /\ UNCHANGED <<config, spc, sround, sidx, models, stats, cround, crep, reprs,
                 cw, shist, wcall, wret>>

\* lines 55-58: stats = {}; receive(ROUND_START)
ClientWaitStart(c) ==
  /\ cpc[c] = "wait_start"
  /\ CanReceive(net, "ROUND_START", c)
  /\ net' = AfterReceive(net, "ROUND_START", c)
  /\ cstats' = [cstats EXCEPT ![c] = EmptyDict]
  /\ hist' = [hist EXCEPT ![c].starts = @ + 1,
                          ![c].startRnd = Received(net, "ROUND_START", c).rnd,
                          ![c].calls = <<>>]
  /\ cpc' = [cpc EXCEPT ![c] = "advertise"]
  /\ UNCHANGED <<config, spc, sround, sidx, models, stats, cround, crep, reprs,
                 cw, shist, wcall, wret>>

\* lines 60-63: send(get_representation(), REPR_ADVERT)
ClientAdvertise(c) ==
  /\ cpc[c] = "advertise"
  /\ net' = Send(net, "REPR_ADVERT", c,
                 [from |-> c, rnd |-> cround[c], rep |-> crep[c]])
  /\ hist' = [hist EXCEPT ![c].adverts = @ + 1, ![c].advRep = crep[c]]
  /\ cpc' = [cpc EXCEPT ![c] = "await_reprs"]
  /\ UNCHANGED <<config, spc, sround, sidx, models, stats, cround, crep, reprs,
                 cw, cstats, shist, wcall, wret>>

\* line 71 enumerating the received list from 0
ReprsDictFromZero(list) == [k \in 0 .. Len(list) - 1 |-> list[k + 1]]

\* line 71: reprs_dict = {k: v for k, v in enumerate(reprs, 1)}; the list's
\* first element, list[1] here, gets key 1
ReprsDict(list) == [k \in 1 .. Len(list) |-> list[k]]

\* lines 66-71: reprs = receive(REPRS_SHARE); reprs_dict = enumerate(reprs, 1)
ClientAwaitReprs(c) ==
  /\ cpc[c] = "await_reprs"
  /\ CanReceive(net, "REPRS_SHARE", c)
  /\ net' = AfterReceive(net, "REPRS_SHARE", c)
  /\ reprs' = [reprs EXCEPT ![c] =
                 ReprsDict(Received(net, "REPRS_SHARE", c).data)]
  /\ hist' = [hist EXCEPT ![c].snapRnd = cround[c],
                          ![c].snap = Received(net, "REPRS_SHARE", c).data]
  /\ cpc' = [cpc EXCEPT ![c] = "select"]
  /\ UNCHANGED <<config, spc, sround, sidx, models, stats, cround, crep, cw,
                 cstats, shist, wcall, wret>>

\* lines 73-78: num_collaborator by T_0; get_collaborator_weights
ClientSelect(c) ==
  /\ cpc[c] = "select"
  /\ LET num_collaborator == NumCollaborator(config, cround[c])
     IN \E out \in get_collaborator_weights(config, c, num_collaborator, cround[c]) :
          IF out.err # "none"
            THEN /\ cpc' = [cpc EXCEPT ![c] = "failed"]
                 /\ hist' = [hist EXCEPT
                               ![c].err = out.err,
                               ![c].nc = num_collaborator,
                               ![c].ncs = Append(@, [rnd |-> cround[c],
                                                     nc |-> num_collaborator])]
                 /\ cw' = cw
            ELSE /\ cw' = [cw EXCEPT ![c] = out.w]
                 /\ hist' = [hist EXCEPT
                               ![c].nc = num_collaborator,
                               ![c].ncs = Append(@, [rnd |-> cround[c],
                                                     nc |-> num_collaborator])]
                 /\ cpc' = [cpc EXCEPT ![c] = "aggregate"]
  /\ UNCHANGED <<config, spc, sround, sidx, models, stats, cround, crep, reprs,
                 cstats, net, shist, wcall, wret>>

\* line 80
Collaborators(w) == {k \in DOMAIN w : w[k][1] > 0}

\* line 82: len(collaborators) == 1 and collaborators[0] == self.node_id
SkipsAggregationWithSelf(c, w) == c \in Collaborators(w)

\* line 82: len(collaborators) == 1 and collaborators[0] == self.node_id
SkipsAggregation(c, w) == Collaborators(w) = {c}

\* lines 80-94 without the singleton test
ClientAggregateAlways(c) ==
  /\ cpc[c] = "aggregate"
  /\ IF AggregateFails(reprs[c], cw[c])
       THEN /\ Fail(c, "AggregateError")
            /\ crep' = crep
       ELSE /\ crep' = [crep EXCEPT ![c] =
                          SetModelWeights(@, Aggregate(reprs[c], cw[c]))]
            /\ hist' = Called(c, <<"aggregate", "set_model_weights">>)
            /\ cpc' = [cpc EXCEPT ![c] = "test_pre"]
  /\ UNCHANGED <<config, spc, sround, sidx, models, stats, cround, reprs, cw,
                 cstats, net, shist, wcall, wret>>

\* lines 80-94: aggregate and adopt the result unless the only collaborator
\* is the node itself
ClientAggregate(c) ==
  /\ cpc[c] = "aggregate"
  /\ IF SkipsAggregation(c, cw[c])
       THEN /\ cpc' = [cpc EXCEPT ![c] = "test_pre"]
            /\ UNCHANGED <<crep, hist>>
       ELSE IF AggregateFails(reprs[c], cw[c])
         THEN /\ cpc' = [cpc EXCEPT ![c] = "failed"]
              /\ hist' = [hist EXCEPT ![c].err = "AggregateError",
                                      ![c].calls = Append(@, "aggregate")]
              /\ crep' = crep
         ELSE /\ crep' = [crep EXCEPT ![c] =
                            SetModelWeights(@, Aggregate(reprs[c], cw[c]))]
              /\ hist' = Called(c, <<"aggregate", "set_model_weights">>)
              /\ cpc' = [cpc EXCEPT ![c] = "test_pre"]
  /\ UNCHANGED <<config, spc, sround, sidx, models, stats, cround, reprs, cw,
                 cstats, net, shist, wcall, wret>>

\* lines 104-107: zeros(num_users); collab_weight[k - 1] = v
CollabWeightVectorUnshifted(cfg, w) ==
  [i \in 0 .. cfg.num_users - 1 |-> IF i \in DOMAIN w THEN w[i] ELSE Zero]

\* lines 104-106: np.zeros(num_users), indices 0 .. num_users - 1, and
\* collab_weight[k - 1] = v for every key k of the weights
CollabWeightVector(cfg, w) ==
  [i \in 0 .. cfg.num_users - 1 |->
     IF i + 1 \in DOMAIN w THEN w[i + 1] ELSE Zero]

\* lines 96-107: the stats dict after local_test, local_train, local_test
RoundStatsOf(cfg, rep, w) ==
  ("test_acc_before_training" :> LocalTest(rep))
  @@ ("train_loss" :> LocalTest(LocalTrained(rep)))
  @@ ("train_acc" :> LocalTest(LocalTrained(rep)))
  @@ ("test_acc_after_training" :> LocalTest(LocalTrained(rep)))
  @@ ("collab_weights" :> CollabWeightVector(cfg, w))

\* lines 96-110 where a node that skipped aggregation reports nothing
ClientTrainAndReportUnlessSkipped(c) ==
  /\ cpc[c] = "test_pre"
  /\ crep' = [crep EXCEPT ![c] = LocalTrained(@)]
  /\ cstats' = [cstats EXCEPT ![c] = RoundStatsOf(config, crep[c], cw[c])]
  /\ net' = IF SkipsAggregation(c, cw[c]) THEN net
            ELSE Send(net, "ROUND_STATS", c,
                      [from |-> c, rnd |-> cround[c],
                       data |-> RoundStatsOf(config, crep[c], cw[c])])
  /\ hist' = [hist EXCEPT ![c].rounds = Append(@, cround[c])]
  /\ cround' = [cround EXCEPT ![c] = @ + 1]
  /\ cpc' = [cpc EXCEPT ![c] =
               IF cround[c] + 1 < config.rounds THEN "wait_start" ELSE "done"]
  /\ UNCHANGED <<config, spc, sround, sidx, models, stats, reprs, cw, shist,
                 wcall, wret>>

\* lines 96-110, 54: local_test, local_train, local_test; the weight vector
\* (an id outside 1 .. num_users has no entry in it); send(stats,
\* ROUND_STATS); next iteration of the round loop
ClientTrainAndReport(c) ==
  /\ cpc[c] = "test_pre"
  /\ crep' = [crep EXCEPT ![c] = LocalTrained(@)]
  /\ IF ~(DOMAIN cw[c] \subseteq 1 .. config.num_users)
       THEN /\ cpc' = [cpc EXCEPT ![c] = "failed"]
            /\ hist' = [hist EXCEPT
                          ![c].err = "IndexError",
                          ![c].calls = @ \o <<"local_test", "local_train", "local_test">>]
            /\ UNCHANGED <<cstats, net, cround>>
       ELSE /\ cstats' = [cstats EXCEPT ![c] = RoundStatsOf(config, crep[c], cw[c])]
            /\ net' = Send(net, "ROUND_STATS", c,
                           [from |-> c, rnd |-> cround[c],
                            data |-> RoundStatsOf(config, crep[c], cw[c])])
            /\ hist' = [hist EXCEPT
                          ![c].rounds = Append(@, cround[c]),
                          ![c].calls = @ \o <<"local_test", "local_train",
                                              "local_test", "send_stats">>]
            /\ cround' = [cround EXCEPT ![c] = @ + 1]
            /\ cpc' = [cpc EXCEPT ![c] =
                         IF cround[c] + 1 < config.rounds
                           THEN "wait_start" ELSE "done"]
  /\ UNCHANGED <<config, spc, sround, sidx, models, stats, reprs, cw, shist,
                 wcall, wret>>

ClientStep(c) ==
  \/ ClientWaitStart(c)
  \/ ClientAdvertise(c)
  \/ ClientAwaitReprs(c)
  \/ ClientSelect(c)
  \/ ClientAggregate(c)
  \/ ClientTrainAndReport(c)

----------------------------------------------------------------------------
(* Specifications                                                          *)

Next ==
  \/ ServerStep
  \/ \E c \in Users(config) : ClientStep(c)

Spec == Init /\ [][Next]_vars

\* every process runs on its own: a process that can take a step is not
\* held back forever, so the run does not stop while some step is possible
FairSpec == Spec /\ WF_vars(Next)

\* one call of get_collaborator_weights on drawn arguments
CallWeights(node_id, num_collaborator, round) ==
  /\ wcall = NoCall
  /\ wcall' = [node_id |-> node_id, num_collaborator |-> num_collaborator,
               round |-> round]
  /\ wret' \in get_collaborator_weights(config, node_id, num_collaborator, round)
  /\ UNCHANGED <<config, spc, sround, sidx, models, stats, cpc, cround, crep,
                 reprs, cw, cstats, net, hist, shist>>

NextW ==
  \E node_id \in Users(config), num_collaborator \in 0 .. MaxCollabW,
     round \in 0 .. MaxRoundW :
    CallWeights(node_id, num_collaborator, round)

SpecW == InitW /\ [][NextW]_vars

----------------------------------------------------------------------------
(* Properties of the round protocol (Spec, FairSpec)                       *)

\* the number of the loop iteration that runs round r
Iteration(r) == r - config.start_round + 1

HoldsSnapshot(c) == hist[c].snapRnd >= config.start_round

InIteration(c) ==
  cpc[c] \in {"advertise", "await_reprs", "select", "aggregate", "test_pre"}

\* C1: round barrier. A client that has received REPRS_SHARE in round r
\* received exactly num_users entries, and by then every client has sent its
\* REPR_ADVERT of round r.
C1_RoundBarrier ==
  \A c \in Users(config) :
    HoldsSnapshot(c) =>
      /\ Len(hist[c].snap) = config.num_users
      /\ \A d \in Users(config) : hist[d].adverts >= Iteration(hist[c].snapRnd)

C1_Witness ==
  /\ config.num_users = 3
  /\ hist[1].snapRnd = config.start_round + 1
  /\ cpc[1] = "select"
  /\ cpc[2] = "await_reprs"
  /\ cpc[3] = "await_reprs"

\* C2: sequentiality. When the server has sent a ROUND_START of a round, its
\* stats list holds, for every earlier round of the run, the gathered stats of
\* all num_users clients for that round.
C2_Sequentiality ==
  \A c \in Users(config) :
    /\ shist.starts[c] <= Len(stats) + 1
    /\ \A i \in 1 .. (shist.starts[c] - 1) :
         /\ i <= Len(stats)
         /\ DOMAIN stats[i] = Users(config)
         /\ \A d \in Users(config) :
              /\ stats[i][d].from = d
              /\ Iteration(stats[i][d].rnd) = i

C2_Witness ==
  /\ config.num_users = 3
  /\ shist.starts[1] = 2
  /\ shist.starts[3] = 1
  /\ Len(stats) = 1

\* C3: identical snapshot. Two clients that received REPRS_SHARE in the same
\* round received the same list, and every entry of the list a client received
\* in round r was advertised in round r.
C3_IdenticalSnapshot ==
  \A c \in Users(config) :
    HoldsSnapshot(c) =>
      /\ \A d \in Users(config) :
           hist[d].snapRnd = hist[c].snapRnd => hist[d].snap = hist[c].snap
      /\ \A i \in DOMAIN hist[c].snap : hist[c].snap[i].rnd = hist[c].snapRnd

C3_Witness ==
  /\ config.num_users = 3
  /\ \A c \in Users(config) : hist[c].snapRnd = config.start_round + 1
  /\ \E i \in DOMAIN hist[1].snap : hist[1].snap[i].rep.ver > 0

\* C4: a client has sent at most as many REPR_ADVERT as it has received
\* ROUND_START, and the ROUND_START it received in loop iteration r was sent
\* in the server's round r.
C4_AdvertiseAfterStart ==
  \A c \in Users(config) :
    /\ hist[c].adverts <= hist[c].starts
    /\ InIteration(c) => hist[c].startRnd = cround[c]

C4_Witness ==
  /\ \E c \in Users(config) : hist[c].adverts = 2 /\ hist[c].starts = 2
  /\ \E c \in Users(config) : hist[c].adverts = 1 /\ hist[c].starts = 2

\* the rounds start_round .. rounds - 1 in increasing order
RangeSeq(lo, hi) == [i \in 1 .. (hi - lo) |-> lo + i - 1]

IsPrefix(p, q) == Len(p) <= Len(q) /\ \A i \in DOMAIN p : p[i] = q[i]

\* a configuration under which no node raises an error
ValidConfig(cfg) ==
  /\ cfg.strategy \in Strategies
  /\ cfg.strategy = "direct_expo" => cfg.num_users >= 3
  /\ cfg.strategy = "fixed" => \A c \in Users(cfg) : cfg.assigned[c] # {}
  /\ cfg.strategy = "random_among_assigned" =>
       \A c \in Users(cfg), r \in RoundRange(cfg) :
         NumCollaborator(cfg, r) <= Cardinality(cfg.assigned[c])

AllDone == spc = "done" /\ \A c \in Users(config) : cpc[c] = "done"

AllRounds == RangeSeq(config.start_round, config.rounds)

\* C5: with a valid configuration and fair scheduling, the server and every
\* client run the rounds start_round .. rounds - 1 once each, in order, and
\* then terminate.
C5_Termination ==
  /\ [](ValidConfig(config) =>
          /\ IsPrefix(shist.rounds, AllRounds)
          /\ \A c \in Users(config) : IsPrefix(hist[c].rounds, AllRounds)
          /\ AllDone => /\ shist.rounds = AllRounds
                        /\ \A c \in Users(config) : hist[c].rounds = AllRounds)
  /\ (ValidConfig(config) => <>AllDone)

\* all clients skipped in the run's last round, or only some did
C5_Witness ==
  /\ AllDone
  /\ ValidConfig(config)
  /\ config.num_users = 3
  /\ Len(shist.rounds) = 2
  /\ SkipsAggregation(1, cw[1])
  /\ ~SkipsAggregation(2, cw[2])

FinishedIteration(c) == cpc[c] \in {"wait_start", "done"} /\ hist[c].adverts > 0

\* C6: in a round whose resolved collaborator set is exactly {self_id} the
\* client calls neither aggregate nor set_model_weights, enters the
\* pre-training test with the representation it advertised, and still runs
\* local_test, local_train, local_test and sends ROUND_STATS.
C6_SkipAggregation ==
  \A c \in Users(config) :
    DOMAIN cw[c] = {c} =>
      /\ cpc[c] = "test_pre" \/ FinishedIteration(c)
           => /\ \A i \in DOMAIN hist[c].calls :
                   hist[c].calls[i] \notin {"aggregate", "set_model_weights"}
      /\ cpc[c] = "test_pre" => crep[c] = hist[c].advRep
      /\ FinishedIteration(c) =>
           /\ hist[c].calls = <<"local_test", "local_train", "local_test", "send_stats">>
           /\ stats # <<>> /\ spc \in {"send_start", "finalize", "done"}
                /\ Len(stats) = Len(hist[c].rounds)
                => stats[Len(stats)][c].data = cstats[c]

C6_Witness ==
  /\ config.num_users = 3
  /\ DOMAIN cw[1] = {1}
  /\ cpc[1] = "done"
  /\ spc = "done"
  /\ Len(hist[1].rounds) = 2
  /\ hist[1].calls = <<"local_test", "local_train", "local_test", "send_stats">>
  /\ "aggregate" \in {hist[2].calls[i] : i \in DOMAIN hist[2].calls}

----------------------------------------------------------------------------
(* Properties of get_collaborator_weights (SpecW)                          *)

WCalled == wcall # NoCall

WSelf == wcall.node_id

WUniverse == config.assigned[wcall.node_id]

WKeys == DOMAIN wret.w

\* a call the configuration admits: a known strategy, enough nodes for
\* direct_expo, a non-empty assigned set for fixed, and no more peers asked
\* for than the assigned universe holds
Admissible ==
  /\ config.strategy \in Strategies
  /\ config.strategy = "direct_expo" => config.num_users >= 3
  /\ config.strategy = "fixed" => WUniverse # {}
  /\ config.strategy = "random_among_assigned" =>
       wcall.num_collaborator <= Cardinality(WUniverse)

ExpoPeriod == FloorLog2(config.num_users - 1)

ExpoPeer == ((WSelf + 2 ^ (wcall.round % ExpoPeriod)) % config.num_users) + 1

\* C8: direct_expo returns exactly {self: 1/2, peer: 1/2} with
\* peer = ((self + 2^(round mod P)) mod num_users) + 1, P = floor(log2(
\* num_users - 1)); num_users = 5, self = 1, round = 0 gives {1, 3}; the
\* result of round + P is that of round.
C8_DirectExpo ==
  WCalled /\ config.strategy = "direct_expo" /\ config.num_users >= 3 =>
    /\ wret = Ok([k \in {WSelf, ExpoPeer} |-> <<1, 2>>])
    /\ config.num_users = 5 /\ WSelf = 1 /\ wcall.round = 0 => WKeys = {1, 3}
    /\ get_collaborator_weights(config, WSelf, wcall.num_collaborator,
                                wcall.round + ExpoPeriod)
         = get_collaborator_weights(config, WSelf, wcall.num_collaborator,
                                    wcall.round)

C8_Witness ==
  /\ WCalled
  /\ config.strategy = "direct_expo"
  /\ config.num_users = 5
  /\ WSelf = 3
  /\ wcall.round = 3
  /\ wret.w = [k \in {3, 1} |-> <<1, 2>>]

\* C9: fixed returns exactly the node's assigned_collaborators as keys, each
\* with weight 1/k, k the size of that set, whatever the round and
\* num_collaborator.
C9_Fixed ==
  WCalled /\ config.strategy = "fixed" =>
    /\ wret.err = "none"
    /\ WKeys = WUniverse
    /\ \A k \in WKeys : wret.w[k] = <<1, Cardinality(WUniverse)>>
    /\ \A r \in 0 .. MaxRoundW, nc \in 0 .. MaxCollabW :
         get_collaborator_weights(config, WSelf, nc, r) = {wret}

C9_Witness ==
  /\ WCalled
  /\ config.strategy = "fixed"
  /\ WSelf \in WUniverse
  /\ Cardinality(WUniverse) = 3
  /\ \A k \in WUniverse : wret.w[k] = <<1, 3>>

RandomCall ==
  /\ WCalled
  /\ config.strategy = "random_among_assigned"
  /\ wcall.num_collaborator <= Cardinality(WUniverse)

\* C10 as stated: random_among_assigned returns self plus exactly
\* num_collaborator distinct peers of the universe, num_collaborator + 1 keys
\* of weight 1/(num_collaborator + 1) each.
C10_AsStated ==
  RandomCall =>
    /\ wret.err = "none"
    /\ WSelf \in WKeys
    /\ (WKeys \ {WSelf}) \subseteq WUniverse
    /\ Cardinality(WKeys) = wcall.num_collaborator + 1
    /\ \A k \in WKeys : wret.w[k] = <<1, wcall.num_collaborator + 1>>
    /\ wcall.num_collaborator = Cardinality(WUniverse) => WUniverse \subseteq WKeys

\* C10 amended: random_among_assigned returns self together with
\* num_collaborator distinct members of the universe, every key with weight
\* 1/(number of keys); that is num_collaborator + 1 keys unless self is in
\* the universe and was drawn, and then num_collaborator keys; with
\* num_collaborator equal to the universe size the whole universe is drawn.
C10_RandomAmongAssigned ==
  RandomCall =>
    /\ wret.err = "none"
    /\ \E S \in SUBSET WUniverse :
         /\ Cardinality(S) = wcall.num_collaborator
         /\ WKeys = S \cup {WSelf}
    /\ \A k \in WKeys : wret.w[k] = <<1, Cardinality(WKeys)>>
    /\ WSelf \notin WUniverse => Cardinality(WKeys) = wcall.num_collaborator + 1
    /\ Cardinality(WKeys) \in {wcall.num_collaborator, wcall.num_collaborator + 1}
    /\ wcall.num_collaborator = Cardinality(WUniverse) => WUniverse \subseteq WKeys

C10_Witness ==
  /\ RandomCall
  /\ Cardinality(WUniverse) = 2
  /\ wcall.num_collaborator = 2
  /\ WSelf \notin WUniverse
  /\ WKeys = WUniverse \cup {WSelf}
  /\ \A k \in WKeys : wret.w[k] = <<1, 3>>


----------------------------------------------------------------------------
(* Error handling of a run (Spec, FairSpec)                                *)

\* a configuration that validation has to reject: an unrecognized strategy
\* name, or direct_expo with two nodes
RejectedConfig(cfg) ==
  \/ cfg.strategy \notin Strategies
  \/ cfg.strategy = "direct_expo" /\ cfg.num_users = 2

\* C11: with an unrecognized strategy, or direct_expo and num_users = 2, the
\* run fails before any round executes: the server sends no ROUND_START and
\* no client sends a REPR_ADVERT.
C11_EagerValidation ==
  RejectedConfig(config) =>
    /\ \A c \in Users(config) : shist.starts[c] = 0 /\ hist[c].adverts = 0
    /\ \A c \in Users(config) : cpc[c] = "failed" => hist[c].starts = 0

SomeFailed == \E c \in Users(config) : cpc[c] = "failed"

AllStopped ==
  /\ spc \in {"done", "failed"}
  /\ \A c \in Users(config) : cpc[c] \in {"done", "failed"}

\* C12: once an error is raised at a client, the server and every other
\* client eventually terminate instead of staying blocked in a receive or
\* an all_gather.
C12_ErrorsTerminate == SomeFailed ~> AllStopped


----------------------------------------------------------------------------
(* Properties of a client's round (Spec)                                   *)

StatsKeys ==
  {"test_acc_before_training", "train_loss", "train_acc",
   "test_acc_after_training", "collab_weights"}

\* C13: the collab_weights entry of the ROUND_STATS a client sent is a vector
\* of length num_users, indices 0 .. num_users - 1, whose entry at index
\* k - 1 is the weight get_collaborator_weights returned for node k in that
\* round and 0 for a node that is not a collaborator; the stats carry the
\* four accuracy and loss entries as well, and the message the server holds
\* is these stats.
C13_ReportedWeights ==
  \A c \in Users(config) :
    FinishedIteration(c) /\ hist[c].rounds # <<>> =>
      /\ DOMAIN cstats[c] = StatsKeys
      /\ DOMAIN cstats[c]["collab_weights"] = 0 .. config.num_users - 1
      /\ \A k \in Users(config) :
           cstats[c]["collab_weights"][k - 1] =
             IF k \in DOMAIN cw[c] THEN cw[c][k] ELSE Zero
      /\ \A i \in 1 .. Len(stats) :
           stats[i][c].rnd = hist[c].rounds[Len(hist[c].rounds)]
             => stats[i][c].data = cstats[c]

C13_Witness ==
  /\ config.num_users = 3
  /\ FinishedIteration(2)
  /\ DOMAIN cw[2] = {3}
  /\ cstats[2]["collab_weights"] = (0 :> Zero) @@ (1 :> Zero) @@ (2 :> One)
  /\ Len(stats) = 2
  /\ stats[2][2].data = cstats[2]


\* C14: the count passed to get_collaborator_weights in round r is
\* target_users_before_T_0 when r < T_0 and target_users_after_T_0 when
\* r >= T_0, round T_0 included, and after a round >= T_0 every later round
\* of the client passes the after value.
C14_HardThreshold ==
  \A c \in Users(config) :
    \A i \in DOMAIN hist[c].ncs :
      /\ hist[c].ncs[i].rnd < config.T_0
           => hist[c].ncs[i].nc = config.target_users_before_T_0
      /\ hist[c].ncs[i].rnd >= config.T_0
           => \A j \in i .. Len(hist[c].ncs) :
                hist[c].ncs[j].nc = config.target_users_after_T_0

C14_Witness ==
  /\ config.target_users_before_T_0 # config.target_users_after_T_0
  /\ config.T_0 = 1
  /\ Len(hist[1].ncs) = 2
  /\ hist[1].ncs[1] = [rnd |-> 0, nc |-> config.target_users_before_T_0]
  /\ hist[1].ncs[2] = [rnd |-> 1, nc |-> config.target_users_after_T_0]


\* C15: at a client that received the snapshot of round r, reprs_dict has the
\* keys 1 .. num_users and the entry under key j is what node j sent as its
\* REPR_ADVERT of round r, in whatever order the adverts were sent.
C15_SnapshotIdentity ==
  \A c \in Users(config) :
    HoldsSnapshot(c) =>
      /\ DOMAIN reprs[c] = Users(config)
      /\ \A j \in Users(config) :
           /\ reprs[c][j].from = j
           /\ reprs[c][j].rnd = hist[c].snapRnd
           /\ hist[j].adverts = Iteration(hist[c].snapRnd)
                => reprs[c][j].rep = hist[j].advRep

\* node 3 advertised a trained representation before node 1 did
C15_Witness ==
  /\ config.num_users = 3
  /\ cpc[2] = "select"
  /\ hist[2].snapRnd = config.start_round + 1
  /\ \A j \in Users(config) : hist[j].adverts = 2
  /\ reprs[2][3].rep = hist[3].advRep
  /\ reprs[2][3].rep.ver > 0
  /\ reprs[2][1].rep # reprs[2][3].rep


\* what a client at the pre-training test has done with its resolved weights
DecidedAsResolved(c) ==
  /\ hist[c].calls = <<>> <=> DOMAIN cw[c] = {c}
  /\ DOMAIN cw[c] # {c} =>
       /\ hist[c].calls = <<"aggregate", "set_model_weights">>
       /\ crep[c] = SetModelWeights(hist[c].advRep, Aggregate(reprs[c], cw[c]))

----------------------------------------------------------------------------
(* Properties of the server's history (Spec)                               *)

\* C17: the round_stats the server gathered in its round r holds exactly one
\* record from each of the num_users clients, produced by that client in its
\* own loop iteration of round r; the history has one entry per round run, in
\* increasing round order, and when the server finalizes a run with
\* start_round <= rounds it holds exactly rounds - start_round entries.
C17_StatsHistory ==
  /\ Len(stats) = Len(shist.rounds)
  /\ \A i \in 1 .. Len(stats) :
       /\ shist.rounds[i] = config.start_round + i - 1
       /\ DOMAIN stats[i] = Users(config)
       /\ \A d \in Users(config) :
            /\ stats[i][d].from = d
            /\ stats[i][d].rnd = shist.rounds[i]
            /\ Len(hist[d].rounds) >= i
            /\ hist[d].rounds[i] = shist.rounds[i]
            /\ DOMAIN stats[i][d].data = StatsKeys
  /\ spc \in {"finalize", "done"} /\ config.start_round <= config.rounds
       => Len(stats) = config.rounds - config.start_round

C17_Witness ==
  /\ spc = "done"
  /\ config.num_users = 3
  /\ config.start_round = 0
  /\ config.rounds = 2
  /\ Len(stats) = 2
  /\ \A d \in Users(config) : stats[1][d].rnd = 0 /\ stats[2][d].rnd = 1
  /\ stats[1][2].data # stats[2][2].data


----------------------------------------------------------------------------
(* Failure of the weight strategy inside a round (Spec)                    *)

\* the client's call of get_collaborator_weights in its current round asked
\* for more peers than its assigned universe holds
Overdrawn(c) ==
  /\ config.strategy = "random_among_assigned"
  /\ hist[c].ncs # <<>>
  /\ hist[c].ncs[Len(hist[c].ncs)].rnd = cround[c]
  /\ hist[c].ncs[Len(hist[c].ncs)].nc > Cardinality(config.assigned[c])

\* C19: under random_among_assigned, when the round's num_collaborator
\* exceeds the size of the node's assigned universe, get_collaborator_weights
\* raises an error and returns no weights, and in that round the client
\* calls neither aggregate nor set_model_weights, keeps the representation it
\* advertised, and sends no ROUND_STATS.
C19_NoSilentRecovery ==
  \A c \in Users(config) :
    Overdrawn(c) =>
      /\ get_collaborator_weights(config, c, hist[c].nc, cround[c])
           = {Raise("ValueError")}
      /\ cpc[c] = "failed"
      /\ hist[c].err = "ValueError"
      /\ hist[c].calls = <<>>
      /\ crep[c] = hist[c].advRep
      /\ \A i \in DOMAIN hist[c].rounds : hist[c].rounds[i] # cround[c]
      /\ \A i \in DOMAIN net["ROUND_STATS"][c] :
           net["ROUND_STATS"][c][i].rnd # cround[c]
      /\ \A i \in DOMAIN stats : stats[i][c].rnd # cround[c]

\* node 2 completed round 0 with one peer and fails in round 1, where two
\* peers are asked of a universe of one
C19_Witness ==
  /\ config.num_users = 3
  /\ Overdrawn(2)
  /\ cround[2] = 1
  /\ hist[2].rounds = <<0>>
  /\ hist[2].nc = 2
  /\ cpc[2] = "failed"
  /\ Len(stats) = 1


----------------------------------------------------------------------------
(* Properties of the direct_expo peer (SpecW)                              *)

\* C20: for num_users >= 3, every node and every round, the direct_expo peer
\* lies in 1 .. num_users and is not the node itself; so the result has two
\* keys, the client does not take the skip branch, and every write
\* collab_weight[k - 1] falls inside the vector of length num_users.
C20_PeerValidity ==
  WCalled /\ config.strategy = "direct_expo" /\ config.num_users >= 3 =>
    /\ wret.err = "none"
    /\ WSelf \in WKeys
    /\ \E peer \in Users(config) \ {WSelf} : WKeys = {WSelf, peer}
    /\ ~SkipsAggregation(WSelf, wret.w)
    /\ \A k \in WKeys :
         /\ k - 1 \in DOMAIN CollabWeightVector(config, wret.w)
         /\ CollabWeightVector(config, wret.w)[k - 1] = wret.w[k]

\* the peer wraps around past the last node
C20_Witness ==
  /\ WCalled
  /\ config.strategy = "direct_expo"
  /\ config.num_users = 3
  /\ WSelf = 3
  /\ wcall.round = 5
  /\ WKeys = {2, 3}
  /\ CollabWeightVector(config, wret.w)
       = (0 :> Zero) @@ (1 :> <<1, 2>>) @@ (2 :> <<1, 2>>)


----------------------------------------------------------------------------
(* Reach of representations under direct_expo (SpecR)                      *)

MaxUsersR == 5

MaxPeriodR == 1

\* runs of one direct_expo period: P rounds from a round that is a multiple
\* of P
ReachConfigs ==
  { Config("direct_expo", n, [c \in 1 .. n |-> {}],
           (m + 1) * FloorLog2(n - 1), m * FloorLog2(n - 1), 1, 1, 1) :
      n \in 3 .. MaxUsersR, m \in 0 .. MaxPeriodR }

InitR ==
  /\ config \in ReachConfigs
  /\ PInit
  /\ wcall = NoCall
  /\ wret = Raise("not_called")

SpecR == InitR /\ [][Next]_vars


\* the number of rounds of the period whose blend node c has adopted
Blended(c) ==
  (cround[c] - config.start_round) + (IF cpc[c] = "test_pre" THEN 1 ELSE 0)

\* the nodes whose representations have reached node c, itself included
ReachSet(c) == crep[c].mix

\* C18: in a period of P = floor(log2(num_users - 1)) direct_expo rounds
\* starting at a multiple of P, with num_users >= 3, the set of nodes whose
\* representations have reached a node doubles with every round the node has
\* blended, and holds 2^P nodes at the end of the period.
C18_ReachDoubles ==
  \A c \in Users(config) :
    /\ Cardinality(ReachSet(c)) = 2 ^ Blended(c)
    /\ cpc[c] = "done" => Cardinality(ReachSet(c)) = 2 ^ ExpoPeriod

====
